---- MODULE Spec2Model ----
(***************************************************************************)
(* A model of crawler.py: the WebCrawler class, its batch scheduler        *)
(* crawl(), the worker crawl_page() run by the thread pool, and the two    *)
(* sqlite tables behind one shared connection and one shared cursor.       *)
(*                                                                         *)
(* URLs are records [host, path].  The web is the environment: for every   *)
(* URL, Internet gives the responses its server may give, and one of them  *)
(* is chosen when the URL is fetched.  Every statement executed on the     *)
(* shared cursor (execute, fetchone) is one step; commits change nothing   *)
(* the connection can see.  The database file is fresh when the WebCrawler *)
(* is constructed, and log_crawl does not raise.                           *)
(***************************************************************************)
EXTENDS Integers, Sequences, FiniteSets, TLC

\* ------------------------------------------------------------ bounds
NumPaths   == 2   \* pages link to the on-host paths 1..NumPaths
MaxWorkers == 3   \* max_workers ranges over 1..MaxWorkers
MaxPages   == 4   \* max_pages ranges over 0..MaxPages
MaxRuns    == 2   \* crawl() is called at most MaxRuns times on the instance

\* ------------------------------------------------------------ URLs
Url(h, p) == [host |-> h, path |-> p]

SeedHost == "example.com"
SubHost  == "sub.example.com"
Hosts    == {SeedHost, SubHost}

\* The relative reference: an href without a host part.
NoHost == ""

\* The URLs the model ever meets (the domain of the per-URL functions).
AllUrls == {Url(h, p) : h \in Hosts, p \in 0..(NumPaths + 2)}

\* urlparse(url).netloc
netloc(url) == url.host

\* urljoin(base, href): an href with a host is absolute and kept, a relative
\* one takes the host of the page it stands on.
urljoin(base, href) ==
  IF href.host = NoHost THEN Url(base.host, href.path) ELSE href

\* hashlib.md5(content.encode()).hexdigest(): a function of the body alone.
get_content_hash(content) == <<"md5", content>>

\* ------------------------------------------------------------ the web
Bodies == {"b1", "b2"}

\* What a server answers.  raises: the exception raised by requests.get or
\* by the parse (lines 92-94), "none" when there is none.  status: the HTTP
\* status of the response.  body: response.text.  hrefs: the href attributes
\* of the anchors.  bad: evaluating an anchor (lines 105-110) raises.
NoRaise == "none"

FailedPage(e) ==
  [raises |-> e, status |-> 0, body |-> "", hrefs |-> {}, bad |-> FALSE]

OkPage(s, b, hs, x) ==
  [raises |-> NoRaise, status |-> s, body |-> b, hrefs |-> hs, bad |-> x]

\* The pages with the given statuses and bodies and with anchors among hs;
\* the fetch or the parse may raise instead, and the anchor loop raises only
\* when it has an anchor to evaluate.
Web(statuses, bodies, hs) ==
  {FailedPage(e) : e \in {"ConnectionError", "ParserRejectedMarkup"}}
    \cup {pg \in {OkPage(s, b, l, x) :
                   s \in statuses, b \in bodies, l \in SUBSET hs,
                   x \in BOOLEAN} : pg.bad => pg.hrefs # {}}

\* The hrefs of the open web: relative links to the paths 1..NumPaths and an
\* absolute link to a subdomain of the seed's host.
Hrefs == {Url(NoHost, p) : p \in 1..NumPaths} \cup {Url(SubHost, 1)}

\* A site of five pages on the seed's host: paths 0, 1 and 2 have one body,
\* paths 3 and 4 another; path 0 links to 1 and 3, which both link to 2 and 4.
RaceBody(url) == IF url.path \in {0, 1, 2} THEN "b1" ELSE "b2"

RaceHrefs(url) ==
  IF url.path = 0 THEN {Url(NoHost, 1), Url(NoHost, 3)}
  ELSE IF url.path \in {1, 3} THEN {Url(NoHost, 2), Url(NoHost, 4)}
  ELSE {}

\* The responses the server of url may give on the site the crawler runs on:
\* on the open site any page with status 200, on the status site any page
\* with status 200 or 404, on the race site the page of the URL, or a failure.
Internet(s, url) ==
  IF s = "race"
    THEN {pg \in Web({200}, {RaceBody(url)}, RaceHrefs(url)) :
            pg.raises # NoRaise \/ pg.hrefs = RaceHrefs(url)}
    ELSE IF s = "status"
      THEN Web({200, 404}, Bodies, Hrefs)
      ELSE Web({200}, Bodies, Hrefs)

\* What a worker knows of a page after lines 92-94: all but the anchors.
Response(pg) == [raises |-> pg.raises, status |-> pg.status, body |-> pg.body]

NotFetched == [raises |-> "not fetched", status |-> 0, body |-> ""]

\* ------------------------------------------------------------ state
VARIABLES
  site,           \* which web the crawler runs on: "open", "status" or "race"
  max_workers,    \* self.max_workers
  max_pages,      \* the argument of the running crawl()
  visited,        \* self.visited
  queue,          \* crawl()'s local queue
  batch,          \* crawl()'s local batch
  pc,             \* where crawl() stands
  task,           \* per URL: where its crawl_page call stands
  resp,           \* per URL: the response its crawl_page call got
  exc,            \* per URL: the exception its crawl_page call is handling
  ret,            \* per URL: the value its future holds
  cursor,         \* self.cursor: the rows its last statement still has to give
  crawl_results,  \* table crawl_results, in id order
  crawl_logs,     \* table crawl_logs, in id order
  batches,        \* the batches submitted by the running crawl(), in order
  offered,        \* the URLs appended to the queue by the running crawl()
  history,        \* every URL the running crawl() put in its queue, in order
  runs            \* number of calls of crawl() so far

vars == <<site, max_workers, max_pages, visited, queue, batch, pc, task, resp,
          exc, ret, cursor, crawl_results, crawl_logs, batches, offered,
          history, runs>>

sched == <<max_pages, visited, queue, batch, pc, batches, offered, history,
          runs>>
db    == <<cursor, crawl_results, crawl_logs>>

start_url == Url(SeedHost, 0)

\* self.domain = urlparse(start_url).netloc
domain == netloc(start_url)

\* ------------------------------------------------------------ the tables
\* The rows a SELECT id FROM crawl_results WHERE content_hash = ? yields.
SelectByHash(rows, h) ==
  LET Ids == {i \in 1..Len(rows) : rows[i].content_hash = h}
      Up[S \in SUBSET (1..Len(rows))] ==
        IF S = {} THEN <<>>
        ELSE LET m == CHOOSE i \in S : \A j \in S : i <= j
             IN <<m>> \o Up[S \ {m}]
  IN Up[Ids]

\* A table whose content_hash column is not UNIQUE.
ViolatesUnique_UrlOnly(rows, url, h) ==
  \E i \in 1..Len(rows) : rows[i].url = url

\* url TEXT UNIQUE, content_hash TEXT UNIQUE
ViolatesUnique(rows, url, h) ==
  \E i \in 1..Len(rows) : rows[i].url = url \/ rows[i].content_hash = h

ResultRow(url, h) == [url |-> url, content_hash |-> h, ip_address |-> netloc(url)]

LogRow(url, status, error) == [url |-> url, status |-> status, error |-> error]

\* The error column of a success entry: log_crawl's default error=None.
Null == "NULL"

\* ------------------------------------------------------------ crawl()
\* The loop test with <= for <.
LoopCond_Inclusive(q, vis, mp) == q # <<>> /\ Cardinality(vis) <= mp

\* line 123: while queue and len(self.visited) < max_pages
LoopCond(q, vis, mp) == q # <<>> /\ Cardinality(vis) < mp

\* An inner loop that stops at the first URL it takes.
FillCond_Single(q, b, mw) == q # <<>> /\ Len(b) < 1

\* The inner loop without its cap.
FillCond_Unbounded(q, b, mw) == q # <<>>

\* line 126: while queue and len(batch) < self.max_workers
FillCond(q, b, mw) == q # <<>> /\ Len(b) < mw

\* The inner loop without its visited test.
NotVisited_Always(url, vis) == TRUE

\* line 128: if url not in self.visited
NotVisited(url, vis) == url \notin vis

\* A hand-over that puts every returned link in the queue.
Unvisited_All(links, vis) == links

\* line 141: the links of a finished page that go to the queue
Unvisited(links, vis) == {l \in links : l \notin vis}

\* The orders in which a Python set may be iterated.
Orders(S) ==
  {f \in [1..Cardinality(S) -> S] : \A i, j \in 1..Cardinality(S) : f[i] = f[j] => i = j}

\* line 139: as_completed hands over the futures that are done
Completed(t) == t \in {"returned", "raised"}

\* A loop that ends with the first future handed over.
BatchResolved_Any(b, t) == \E i \in 1..Len(b) : t[b[i]] = "collected"

\* A barrier that waits for futures that are still to be handed over.
BatchResolved_Stale(b, t) == \A i \in 1..Len(b) : t[b[i]] = "returned"

\* The for loop of lines 139-141 ends when every future of the batch was
\* handed over.
BatchResolved(b, t) == \A i \in 1..Len(b) : t[b[i]] = "collected"

PageBudgets(s) == 0..MaxPages

\* A crawl() that starts from an empty visited set.
Crawl_FreshVisited ==
  /\ pc \in {"idle", "done"}
  /\ runs < MaxRuns
  /\ \E mp \in PageBudgets(site) : max_pages' = mp
  /\ visited' = {}
  /\ queue' = <<start_url>>
  /\ batch' = <<>>
  /\ batches' = <<>>
  /\ offered' = {}
  /\ history' = <<start_url>>
  /\ runs' = runs + 1
  /\ pc' = "loop"
  /\ UNCHANGED <<site, max_workers, task, resp, exc, ret, db>>

\* crawl(max_pages) is called: lines 118-122.
Crawl ==
  /\ pc \in {"idle", "done"}
  /\ runs < MaxRuns
  /\ \E mp \in PageBudgets(site) : max_pages' = mp
  /\ queue' = <<start_url>>
  /\ batch' = <<>>
  /\ batches' = <<>>
  /\ offered' = {}
  /\ history' = <<start_url>>
  /\ runs' = runs + 1
  /\ pc' = "loop"
  /\ UNCHANGED <<site, max_workers, visited, task, resp, exc, ret, db>>

\* line 123: the loop test; line 125 when it holds.
LoopTest ==
  /\ pc = "loop"
  /\ IF LoopCond(queue, visited, max_pages)
       THEN pc' = "fill" /\ batch' = <<>>
       ELSE pc' = "done" /\ batch' = batch
  /\ UNCHANGED <<site, max_workers, max_pages, visited, queue, task, resp, exc,
                 ret, db, batches, offered, history, runs>>

\* A dispatch that leaves the visited set as it is.
MarkVisited_Skip(vis, url) == vis

\* line 129: self.visited.add(url)
MarkVisited(vis, url) == vis \cup {url}

\* A pop from the wrong end: queue.pop().
PopBack(q) == <<q[Len(q)], SubSeq(q, 1, Len(q) - 1)>>

\* line 127: queue.pop(0) gives the first element and leaves the rest.
PopFront(q) == <<Head(q), Tail(q)>>

\* lines 126-130: one turn of the inner loop.
Pop ==
  /\ pc = "fill"
  /\ FillCond(queue, batch, max_workers)
  /\ LET url == PopFront(queue)[1] IN
       /\ queue' = PopFront(queue)[2]
       /\ IF NotVisited(url, visited)
            THEN /\ visited' = MarkVisited(visited, url)
                 /\ batch' = Append(batch, url)
            ELSE UNCHANGED <<visited, batch>>
  /\ UNCHANGED <<site, max_workers, max_pages, pc, task, resp, exc, ret, db,
                 batches, offered, history, runs>>

\* lines 132-136: leave on an empty batch, else submit every URL of it.
Submit ==
  /\ pc = "fill"
  /\ ~FillCond(queue, batch, max_workers)
  /\ IF batch = <<>>
       THEN pc' = "done" /\ UNCHANGED <<task, batches>>
       ELSE /\ pc' = "wait"
            /\ task' = [u \in AllUrls |->
                          IF \E i \in 1..Len(batch) : batch[i] = u
                            THEN "fetch" ELSE task[u]]
            /\ batches' = Append(batches, batch)
  /\ UNCHANGED <<site, max_workers, max_pages, visited, queue, batch, resp,
                 exc, ret, db, offered, history, runs>>

\* lines 139-143: one future is handed over; its result() either raises, which
\* ends crawl(), or gives the links that extend the queue; after the last
\* one the loop sleeps and goes back to its test.
Collect(u) ==
  /\ pc = "wait"
  /\ Completed(task[u])
  /\ task' = [task EXCEPT ![u] = "collected"]
  /\ ret' = [ret EXCEPT ![u] = {}]
  /\ IF task[u] = "raised"
       THEN pc' = "aborted" /\ UNCHANGED <<queue, offered, history>>
       ELSE /\ \E o \in Orders(Unvisited(ret[u], visited)) :
                 queue' = queue \o o /\ history' = history \o o
            /\ offered' = offered \cup Unvisited(ret[u], visited)
            /\ pc' = IF BatchResolved(batch, task') THEN "loop" ELSE "wait"
  /\ UNCHANGED <<site, max_workers, max_pages, visited, batch, resp, exc, db,
                 batches, runs>>

\* ------------------------------------------------------------ crawl_page()
\* is_valid_url is called at line 109 and defined nowhere in crawler.py; this
\* is the filter the design gives it: the host equals the crawl's domain.
is_valid_url(url, dom) == netloc(url) = dom

\* The anchor loop without the is_valid_url test.
ExtractLinks_Unfiltered(url, hrefs, dom) == {urljoin(url, h) : h \in hrefs}

\* lines 104-112: the links a page returns
ExtractLinks(url, hrefs, dom) ==
  {l \in {urljoin(url, h) : h \in hrefs} : is_valid_url(l, dom)}

\* A crawl_page without its except clause: the exception leaves the call.
Catch_Reraise(e) == "raised"

\* lines 91 and 114: where an exception raised inside the try block goes
Catch(e) == "log_error"

\* An error entry written without its detail.
ErrorDetail_None(e) == "NULL"

\* line 115: str(e)
ErrorDetail(e) == e

\* lines 92-97, 69-71 and 64: the fetch and the parse; when they raise,
\* lines 114-116; else save_result computes the hash and
\* is_duplicate_content executes its SELECT on the shared cursor.
Fetch(u) ==
  /\ task[u] = "fetch"
  /\ \E pg \in Internet(site, u) :
       /\ resp' = [resp EXCEPT ![u] = Response(pg)]
       /\ IF pg.raises # NoRaise
            THEN /\ exc' = [exc EXCEPT ![u] = pg.raises]
                 /\ task' = [task EXCEPT ![u] = Catch(pg.raises)]
                 /\ cursor' = cursor
            ELSE /\ exc' = exc
                 /\ task' = [task EXCEPT ![u] = "fetchone"]
                 /\ cursor' = SelectByHash(crawl_results, get_content_hash(pg.body))
  /\ UNCHANGED <<site, max_workers, sched, ret, crawl_results, crawl_logs>>

\* lines 65 and 71: fetchone takes the next row the shared cursor holds.
FetchOne(u) ==
  /\ task[u] = "fetchone"
  /\ IF cursor # <<>>
       THEN cursor' = Tail(cursor) /\ task' = [task EXCEPT ![u] = "log_success"]
       ELSE cursor' = cursor /\ task' = [task EXCEPT ![u] = "insert"]
  /\ UNCHANGED <<site, max_workers, sched, resp, exc, ret, crawl_results, crawl_logs>>

\* lines 72-78: the INSERT and its commit, or the IntegrityError of a UNIQUE
\* column, which save_result catches.
ExecInsert(u) ==
  /\ task[u] = "insert"
  /\ LET h == get_content_hash(resp[u].body) IN
       IF ViolatesUnique(crawl_results, u, h)
         THEN /\ crawl_results' = crawl_results
              /\ task' = [task EXCEPT ![u] = "conflict"]
         ELSE /\ crawl_results' = Append(crawl_results, ResultRow(u, h))
              /\ task' = [task EXCEPT ![u] = "log_success"]
  /\ cursor' = <<>>
  /\ UNCHANGED <<site, max_workers, sched, resp, exc, ret, crawl_logs>>

\* line 79: the conflict is printed and save_result returns.
PrintConflict(u) ==
  /\ task[u] = "conflict"
  /\ task' = [task EXCEPT ![u] = "log_success"]
  /\ UNCHANGED <<site, max_workers, sched, resp, exc, ret, db>>

\* lines 101-112: the success entry, then the anchors of the page.
LogSuccess(u) ==
  /\ task[u] = "log_success"
  /\ crawl_logs' = Append(crawl_logs, LogRow(u, "success", Null))
  /\ cursor' = <<>>
  /\ \E pg \in Internet(site, u) :
       /\ Response(pg) = resp[u]
       /\ IF pg.bad
            THEN /\ exc' = [exc EXCEPT ![u] = "AnchorError"]
                 /\ task' = [task EXCEPT ![u] = Catch("AnchorError")]
                 /\ ret' = ret
            ELSE /\ exc' = exc
                 /\ task' = [task EXCEPT ![u] = "returned"]
                 /\ ret' = [ret EXCEPT ![u] = ExtractLinks(u, pg.hrefs, domain)]
  /\ UNCHANGED <<site, max_workers, sched, resp, crawl_results>>

\* lines 114-116: the error entry and the empty set.
LogError(u) ==
  /\ task[u] = "log_error"
  /\ crawl_logs' = Append(crawl_logs, LogRow(u, "error", ErrorDetail(exc[u])))
  /\ cursor' = <<>>
  /\ exc' = [exc EXCEPT ![u] = NoRaise]
  /\ ret' = [ret EXCEPT ![u] = {}]
  /\ task' = [task EXCEPT ![u] = "returned"]
  /\ UNCHANGED <<site, max_workers, sched, resp, crawl_results>>

\* ------------------------------------------------------------ the system
\* After WebCrawler(start_url, db_config, delay, max_workers) on a fresh
\* database file.
InitOn(s) ==
  /\ site = s
  /\ max_workers \in 1..MaxWorkers
  /\ max_pages = 0
  /\ visited = {}
  /\ queue = <<>>
  /\ batch = <<>>
  /\ pc = "idle"
  /\ task = [u \in AllUrls |-> "none"]
  /\ resp = [u \in AllUrls |-> NotFetched]
  /\ exc = [u \in AllUrls |-> NoRaise]
  /\ ret = [u \in AllUrls |-> {}]
  /\ cursor = <<>>
  /\ crawl_results = <<>>
  /\ crawl_logs = <<>>
  /\ batches = <<>>
  /\ offered = {}
  /\ history = <<>>
  /\ runs = 0

Init == InitOn("open")

Next ==
  \/ Crawl
  \/ LoopTest
  \/ Pop
  \/ Submit
  \/ \E u \in AllUrls : Collect(u)
  \/ \E u \in AllUrls : Fetch(u)
  \/ \E u \in AllUrls : FetchOne(u)
  \/ \E u \in AllUrls : ExecInsert(u)
  \/ \E u \in AllUrls : PrintConflict(u)
  \/ \E u \in AllUrls : LogSuccess(u)
  \/ \E u \in AllUrls : LogError(u)

Spec == Init /\ [][Next]_vars

\* The steps of the thread that runs crawl(), once it is called.
Scheduler == LoopTest \/ Pop \/ Submit \/ \E u \in AllUrls : Collect(u)

\* The steps of the pool thread that runs crawl_page(u).
Worker(u) ==
  \/ Fetch(u)
  \/ FetchOne(u)
  \/ ExecInsert(u)
  \/ PrintConflict(u)
  \/ LogSuccess(u)
  \/ LogError(u)

\* Every thread that can run does run: requests.get has a timeout, so a fetch
\* returns, and the pool has a thread for every URL of a batch.
Fairness == WF_vars(Scheduler) /\ \A u \in AllUrls : WF_vars(Worker(u))

LiveSpec == Init /\ [][Next]_vars /\ Fairness

\* The same crawler on the race site.
InitRace == InitOn("race")

SpecRace == InitRace /\ [][Next]_vars

\* The same crawler on the status site.
InitStatus == InitOn("status")

SpecStatus == InitStatus /\ [][Next]_vars

\* ------------------------------------------------------------ vocabulary
\* The batches of the running crawl(), the one being filled included.
AllBatches == IF pc = "fill" THEN Append(batches, batch) ELSE batches

\* The places (batch, position) at which the running crawl() put a URL.
Places == {<<i, k>> \in (1..Len(AllBatches)) \X (1..MaxWorkers + 1) :
             k <= Len(AllBatches[i])}

NumDispatched == Cardinality(Places)

\* A crawl_page call is in flight from its submission to its return.
InFlight == {u \in AllUrls : task[u] \notin {"none", "returned", "raised", "collected"}}

Dispatched(u) == task[u] # "none"

LogsOf(u) == {i \in 1..Len(crawl_logs) : crawl_logs[i].url = u}

ResultsOf(u) == {i \in 1..Len(crawl_results) : crawl_results[i].url = u}

FetchFailed(u) == resp[u].raises \notin {NoRaise, NotFetched.raises}

\* ------------------------------------------------------------ claims

\* C1: within one run of crawl() no URL is placed in a batch twice, neither
\* in the same batch nor in a later one.
C1_NoUrlDispatchedTwice ==
  \A a, b \in Places :
    AllBatches[a[1]][a[2]] = AllBatches[b[1]][b[2]] => a = b

\* C1 witness: the URL at the head of the queue was dispatched by an earlier
\* batch and is about to be popped again.
C1_Witness ==
  /\ pc = "fill"
  /\ queue # <<>>
  /\ \E i \in 1..Len(batches) : \E k \in 1..Len(batches[i]) :
       batches[i][k] = Head(queue)

\* C2 (as claimed): when crawl() has ended, every dispatched URL has exactly
\* one log entry, of status success or error, and no other URL has one.
C2_ExactlyOneLogPerDispatch ==
  pc = "done" =>
    /\ \A u \in AllUrls :
         Cardinality(LogsOf(u)) = IF Dispatched(u) THEN 1 ELSE 0
    /\ \A i \in 1..Len(crawl_logs) : crawl_logs[i].status \in {"success", "error"}

\* C3: a batch is selected only while fewer than max_pages URLs are visited;
\* all batches but the last hold fewer than max_pages URLs together, and the
\* URLs dispatched by a run number at most max_pages + max_workers - 1.
C3_BudgetOvershootBounded ==
  /\ pc = "fill" => Cardinality(visited) - Len(batch) < max_pages
  /\ AllBatches # <<>> =>
       NumDispatched - Len(AllBatches[Len(AllBatches)]) < max_pages
  /\ runs > 0 => NumDispatched <= max_pages + max_workers - 1

\* C3 witness: a run has dispatched more URLs than max_pages.
C3_Witness == runs = 1 /\ max_pages > 0 /\ NumDispatched > max_pages

\* C4: crawl_results never holds two records with one content_hash or with
\* one url, and a worker that loses the insert race goes on to its log entry:
\* nothing is raised out of crawl_page and crawl() is not aborted.
C4_UniqueResults ==
  /\ \A i, j \in 1..Len(crawl_results) :
       (\/ crawl_results[i].content_hash = crawl_results[j].content_hash
        \/ crawl_results[i].url = crawl_results[j].url) => i = j
  /\ \A u \in AllUrls : task[u] # "raised"
  /\ pc # "aborted"

\* C4 witness: a worker passed the duplicate check, another worker's record
\* with the same fingerprint came in between, and its INSERT was refused.
C4_Witness ==
  \E u \in AllUrls :
    /\ task[u] = "conflict"
    /\ ResultsOf(u) = {}
    /\ \E i \in 1..Len(crawl_results) :
         /\ crawl_results[i].content_hash = get_content_hash(resp[u].body)
         /\ crawl_results[i].url \in InFlight

\* C6: at most max_workers crawl_page calls are in flight, every batch holds
\* at most max_workers URLs, and every call in flight is of the last batch.
C6_BoundedConcurrency ==
  /\ Cardinality(InFlight) <= max_workers
  /\ \A i \in 1..Len(AllBatches) : Len(AllBatches[i]) <= max_workers
  /\ \A u \in InFlight :
       /\ pc = "wait"
       /\ \E k \in 1..Len(batches[Len(batches)]) : batches[Len(batches)][k] = u

\* C6 witness: a full batch of two workers is in flight after an earlier batch.
C6_Witness ==
  /\ Len(batches) >= 2
  /\ max_workers = 2
  /\ Cardinality(InFlight) = max_workers

\* C7: while crawl() tests its loop or fills a batch, every crawl_page call
\* submitted so far has returned and was handed over and has its log entry
\* written; and the step that hands a future over leaves each link it
\* returned either visited or in the queue.
C7_BarrierState ==
  pc \in {"loop", "fill"} =>
    \A u \in AllUrls :
      /\ task[u] \in {"none", "collected"}
      /\ ret[u] = {}
      /\ Dispatched(u) => LogsOf(u) # {}

C7_BatchBarrier ==
  /\ []C7_BarrierState
  /\ [][\A u \in AllUrls :
          (task[u] = "returned" /\ task'[u] = "collected") =>
            \A l \in ret[u] :
              l \in visited \/ \E i \in 1..Len(queue') : queue'[i] = l]_vars

\* C7 witness: a batch is being filled after a batch of two URLs, one of
\* which left a record in crawl_results, has been handed over.
C7_Witness ==
  /\ pc = "fill"
  /\ batches # <<>>
  /\ Len(batches[Len(batches)]) = 2
  /\ ResultsOf(batches[Len(batches)][2]) # {}
  /\ queue # <<>>

\* C8: every URL appended to the queue by a run, every URL in the queue and
\* every URL dispatched, the seed apart, has exactly the host of start_url.
C8_OnlySeedHostEnqueued ==
  /\ \A u \in offered : netloc(u) = netloc(start_url)
  /\ \A i \in 1..Len(queue) :
       queue[i] # start_url => netloc(queue[i]) = netloc(start_url)
  /\ \A a \in Places :
       AllBatches[a[1]][a[2]] # start_url =>
         netloc(AllBatches[a[1]][a[2]]) = netloc(start_url)

\* C8 witness: links found by a page have been appended to the queue and one
\* of them has been dispatched.
C8_Witness ==
  /\ Len(batches) >= 2
  /\ \E u \in offered : u # start_url /\ Dispatched(u)

\* C9: no exception leaves crawl_page, crawl() is never aborted, and crawl()
\* ends only with no unvisited URL in the queue or with max_pages URLs
\* visited.
C9_FailuresNeverAbort ==
  /\ \A u \in AllUrls : task[u] # "raised"
  /\ pc # "aborted"
  /\ pc = "done" =>
       \/ \A i \in 1..Len(queue) : queue[i] \in visited
       \/ Cardinality(visited) >= max_pages

\* C9 witness: a page of an earlier batch failed and a later batch is running.
C9_Witness ==
  /\ pc = "wait"
  /\ \E i \in 1..Len(crawl_logs) :
       /\ crawl_logs[i].status = "error"
       /\ \A k \in 1..Len(batch) : batch[k] # crawl_logs[i].url

\* C10: a URL whose fetch raised never gets a record in crawl_results nor a
\* success entry, returns no links, and once its call has returned it has
\* exactly one log entry, of status error with a detail; when it is the seed,
\* crawl() ends after its one batch with that single log entry.
C10_FetchErrorLoggedOnce ==
  /\ \A u \in AllUrls :
       FetchFailed(u) =>
         /\ ResultsOf(u) = {}
         /\ ret[u] = {}
         /\ \A i \in LogsOf(u) :
              crawl_logs[i].status = "error" /\ crawl_logs[i].error # Null
         /\ task[u] \in {"log_error", "returned", "collected"}
         /\ task[u] \in {"returned", "collected"} => Cardinality(LogsOf(u)) = 1
  /\ (FetchFailed(start_url) /\ pc = "done") =>
       /\ Len(crawl_logs) = 1
       /\ Len(batches) <= 1
       /\ visited = {start_url}

\* C10 witness: the fetch of the seed raised and crawl() has ended.
C10_Witness ==
  FetchFailed(start_url) /\ pc = "done" /\ runs = 1 /\ max_pages > 1

\* C5 (as claimed): when crawl() has ended, any two pages with different URLs
\* that were fetched with the same body have one success entry each and
\* crawl_results holds exactly one record with their fingerprint.
SuccessLogsOf(u) == {i \in LogsOf(u) : crawl_logs[i].status = "success"}

WithHash(h) == {i \in 1..Len(crawl_results) : crawl_results[i].content_hash = h}

Fetched(u) == resp[u].raises = NoRaise

C11_BudgetOneFetchesSeedOnly ==
  (runs = 1 /\ max_pages = 1 /\ pc = "done") =>
    /\ \A u \in AllUrls : Dispatched(u) <=> u = start_url
    /\ Len(crawl_logs) = 1
    /\ \A i \in 1..Len(crawl_logs) : crawl_logs[i].url = start_url
    /\ Len(crawl_results) <= 1

\* C12 (as claimed): a URL whose response has a status outside 200..299 gets
\* no success entry and no record in crawl_results and returns no links, and
\* once its call has returned it has exactly one log entry, of status error.
NonSuccessStatus(u) == Fetched(u) /\ resp[u].status \notin 200..299

C12_Non2xxIsFetchError ==
  \A u \in AllUrls :
    NonSuccessStatus(u) =>
      /\ SuccessLogsOf(u) = {}
      /\ ResultsOf(u) = {}
      /\ ret[u] = {}
      /\ task[u] \in {"returned", "collected"} => Cardinality(LogsOf(u)) = 1

\* C13: under weak fairness of the scheduler and of every worker, a crawl()
\* that is running eventually ends, whatever max_pages and max_workers are,
\* also when the budget exceeds the reachable URLs and pages link in cycles.
Running == pc \in {"loop", "fill", "wait"}

C13_CrawlTerminates == Running ~> (pc = "done")

\* C13 witness: a first crawl() ended with budget left, after it dispatched
\* the seed and every URL a page of the seed's host can link to, so that
\* the links of these pages can only lead to one another.
C13_Witness ==
  /\ pc = "done"
  /\ runs = 1
  /\ Cardinality(visited) < max_pages
  /\ \A l \in ExtractLinks(start_url, Hrefs, domain) : Dispatched(l)

Min(a, b) == IF a < b THEN a ELSE b

\* The distinct URLs of the queue that are not visited.
PendingUnvisited == {queue[i] : i \in 1..Len(queue)} \ visited

\* The size the batch being filled is to reach.
BatchTarget == Min(max_workers, Len(batch) + Cardinality(PendingUnvisited))

\* The inner loop of lines 126-130 has ended.
FillEnded == pc = "fill" /\ ~FillCond(queue, batch, max_workers)

\* C15: the batch selected from a queue holds exactly min(max_workers, number
\* of distinct unvisited URLs of the queue) URLs: the selection starts with
\* an empty batch, every pop keeps the target, a skipped URL counting for
\* nothing, and the selection ends with the batch at its target.
C15_GreedyBatch ==
  /\ [](FillEnded => Len(batch) = BatchTarget)
  /\ [][pc' = "fill" =>
          BatchTarget' = IF pc = "fill" THEN BatchTarget
                         ELSE Min(max_workers, Cardinality(PendingUnvisited))]_vars

\* C15 witness: a selection ended with a batch of two for three workers,
\* after it popped more URLs than it took.
C15_Witness ==
  /\ FillEnded
  /\ max_workers = 3
  /\ Len(batch) = 2
  /\ Len(history) - Len(queue) > NumDispatched

\* How often a URL stands in a sequence.
Count(q, u) == Cardinality({i \in 1..Len(q) : q[i] = u})

WorkerStep == \E u \in InFlight : task'[u] # task[u]

\* C17: every URL that is in flight, has a log entry or has a result record
\* is in visited; visited never loses an element and grows only by the URL
\* the scheduler pops from the queue into the batch, at that pop; a step of
\* crawl_page changes neither visited nor the queue.
C17_VisitedOnlyByPop ==
  /\ [](\A u \in AllUrls :
          (u \in InFlight \/ LogsOf(u) # {} \/ ResultsOf(u) # {}) =>
            u \in visited)
  /\ [][/\ visited \subseteq visited'
        /\ visited' # visited =>
             /\ pc = "fill" /\ queue # <<>>
             /\ Head(queue) \notin visited
             /\ visited' = visited \cup {Head(queue)}
             /\ queue' = Tail(queue)
             /\ batch' = Append(batch, Head(queue))
        /\ WorkerStep => UNCHANGED <<visited, queue>>]_vars

\* C17 witness: one URL of a batch is in flight while another has its log
\* entry and its record, and an earlier crawl_page call was handed over.
C17_Witness ==
  /\ pc = "wait"
  /\ \E u \in InFlight : \E v \in AllUrls \ {u} :
       /\ LogsOf(v) # {} /\ ResultsOf(v) # {}
       /\ \E i \in 1..Len(batch) : batch[i] = v
       /\ \E j \in 1..Len(batch) : batch[j] = u
  /\ task[start_url] = "collected"

\* C18 (as claimed): a step of crawl_page leaves crawl_results and crawl_logs
\* unchanged, the tables being written by the scheduler after the call has
\* returned.
C18_WorkerWritesNothing ==
  [][WorkerStep => UNCHANGED <<crawl_results, crawl_logs>>]_vars

\* The URLs the running crawl() placed in a batch.
DispatchedNow == {AllBatches[p[1]][p[2]] : p \in Places}

\* The place in history at which a URL was first put in the queue.
FirstAppended(u) ==
  CHOOSE i \in 1..Len(history) :
    history[i] = u /\ \A j \in 1..(i - 1) : history[j] # u

\* The batch and the position at which a URL was dispatched.
PlaceOf(u) == CHOOSE p \in Places : AllBatches[p[1]][p[2]] = u

\* Place p comes before place q: an earlier batch, or earlier in the batch.
Before(p, q) == p[1] < q[1] \/ (p[1] = q[1] /\ p[2] < q[2])

\* C19: the URLs of a run are dispatched in the order in which they were
\* first put in the queue: of two dispatched URLs the one first appended
\* earlier stands in an earlier batch, or earlier in the same batch.
C19_FifoDispatch ==
  /\ \A u \in DispatchedNow : \E i \in 1..Len(history) : history[i] = u
  /\ \A a, b \in DispatchedNow :
       FirstAppended(a) < FirstAppended(b) => Before(PlaceOf(a), PlaceOf(b))

\* C19 witness: with one worker, a link that the page of batch n returned is
\* dispatched in batch n + 2, after the URL that was pending when batch n
\* was selected.
C19_Witness ==
  /\ max_workers = 1
  /\ \E n \in 1..(Len(batches) - 2) :
       LET N == batches[n][1]
           P == batches[n + 1][1]
           L == batches[n + 2][1]
       IN /\ FirstAppended(N) < FirstAppended(P)
          /\ FirstAppended(P) < FirstAppended(L)
          /\ L \in ExtractLinks(N, RaceHrefs(N), domain)

\* C20 (as claimed): a call of crawl() after the first dispatches no URL and
\* has no crawl_page call in flight.
C20_SecondCallDispatchesNothing ==
  runs >= 2 => NumDispatched = 0 /\ InFlight = {}

\* The running or ended crawl() was called after an earlier call had
\* dispatched the seed.
SeedCrawledBefore ==
  task[start_url] = "collected" /\ start_url \notin DispatchedNow

\* C20 (amended): a crawl() called after a call that dispatched the seed
\* finds the seed visited, dispatches no URL and has no call in flight, and
\* none of its steps changes visited, a crawl_page call, crawl_results or
\* crawl_logs.
C20_RecrawlDoesNothing ==
  /\ [](SeedCrawledBefore =>
          /\ start_url \in visited
          /\ NumDispatched = 0
          /\ InFlight = {}
          /\ pc \in {"loop", "fill", "done"})
  /\ [][SeedCrawledBefore =>
          UNCHANGED <<visited, task, crawl_results, crawl_logs>>]_vars

\* C20 witness: a second crawl() with budget left, called after the seed was
\* crawled, has ended on its empty first batch.
C20_Witness ==
  /\ runs = 2
  /\ SeedCrawledBefore
  /\ pc = "done"
  /\ queue = <<>>
  /\ batch = <<>>
  /\ Cardinality(visited) < max_pages
====
